---------------------------- MODULE Spec2Model ----------------------------
(***************************************************************************)
(* A state-machine model of train(config) in                               *)
(* src/autotrain/trainers/clm.py: the causal-LM fine-tuning pipeline.      *)
(*                                                                         *)
(* train() is one synchronous function.  Each statement group that calls   *)
(* an external collaborator (datasets, transformers, peft, the hub) is one *)
(* stage; pc names the stage about to run.  An exception raised by a stage *)
(* is never caught (the function has no try/except), which is the action   *)
(* Raise.  The output directory and the hub outlive a run, so a new call   *)
(* of train() (Restart) starts from what earlier runs left there.          *)
(*                                                                         *)
(* Python's None is the empty sequence and a present value x is <<x>>.     *)
(***************************************************************************)
EXTENDS Integers, Sequences, FiniteSets

VARIABLES
    input,          \* the argument train() is called with (never written)
    env,            \* what the external services return for this job
    pc,             \* the stage about to run, or "done" / "aborted"
    config,         \* the parameter object; only block_size is written
    tokenizer,      \* the tokenizer object
    data,           \* train_data / valid_data: how far each split is processed
    model,          \* the model object
    block_size,     \* the local block_size of train()
    logging_steps,  \* the local logging_steps of train()
    training_args,  \* the TrainingArguments bundle
    callbacks,      \* the callbacks list
    trainer,        \* the Trainer object
    outDir,         \* config.project_name on disk: the stages that wrote it
    hub,            \* the remote registry: repositories and their uploads
    events,         \* the stages this run has completed, in order
    error           \* the uncaught exception of this run, if any

vars == <<input, env, pc, config, tokenizer, data, model, block_size,
          logging_steps, training_args, callbacks, trainer, outDir, hub,
          events, error>>

None == <<>>
Some(x) == <<x>>
Min(a, b) == IF a < b THEN a ELSE b
Max(a, b) == IF a > b THEN a ELSE b

(***************************************************************************)
(* Program constants.                                                      *)
(***************************************************************************)
UnsetSentinel == -1
TokenizerLimit == 2048
DefaultBlockSize == 1024

(***************************************************************************)
(* Bounds of the model.                                                    *)
(***************************************************************************)
MaxLen == 10
MaxBatch == 2

(***************************************************************************)
(* The inputs.  A job is a configuration plus what the services return for *)
(* it.  Three families of jobs are explored, each varying the options one  *)
(* part of train() reads over a baseline.                                  *)
(***************************************************************************)
BaseInput ==
    [block_size          |-> Some(UnsetSentinel),
     model_max_length    |-> 1024,
     valid_split         |-> None,
     use_peft            |-> FALSE,
     use_int8            |-> FALSE,
     push_to_hub         |-> FALSE,
     logging_steps       |-> UnsetSentinel,
     train_batch_size    |-> 2,
     evaluation_strategy |-> "epoch",
     repo_id             |-> "user/model"]

BaseEnv ==
    [intrinsic_max_length |-> 1024,
     train_blocks         |-> 10,
     valid_blocks         |-> 5]

ValidSplits == {None, Some("validation")}
BlockSizes == {None} \cup {Some(b) : b \in {-1, -3, 0, 4, 1024, 1500, 3000}}
IntrinsicLengths == {512, 2048, 2049, 4096}
ConfiguredMaxLengths == {1024, 8192}
LoggingSteps == {UnsetSentinel, 0, 7}

\* every combination of the branch-selecting options
FlagJobs ==
    { [input |-> [BaseInput EXCEPT !.valid_split = v, !.use_peft = p,
                                   !.use_int8 = q, !.push_to_hub = h,
                                   !.evaluation_strategy = e],
       env   |-> BaseEnv] :
      v \in ValidSplits, p \in BOOLEAN, q \in BOOLEAN, h \in BOOLEAN,
      e \in {"epoch", "steps"} }

\* every block size against every tokenizer limit
BlockJobs ==
    { [input |-> [BaseInput EXCEPT !.block_size = b, !.model_max_length = c],
       env   |-> [BaseEnv EXCEPT !.intrinsic_max_length = m]] :
      b \in BlockSizes, c \in ConfiguredMaxLengths, m \in IntrinsicLengths }

\* every logging option against every pair of grouped split lengths
LoggingJobs ==
    { [input |-> [BaseInput EXCEPT !.logging_steps = s, !.valid_split = v,
                                   !.train_batch_size = bs],
       env   |-> [BaseEnv EXCEPT !.train_blocks = lt, !.valid_blocks = lv]] :
      s \in LoggingSteps, v \in ValidSplits, bs \in 1..MaxBatch,
      lt \in 0..MaxLen, lv \in 0..MaxLen }

Jobs == FlagJobs \cup BlockJobs \cup LoggingJobs

(***************************************************************************)
(* Control flow of train(): the stages in program order, and the condition *)
(* under which the code runs each.                                         *)
(***************************************************************************)
\* a variant of Order: the adapter merge placed before the save
OrderMergeBeforeSave ==
    << "normalize_config", "load_train", "load_valid", "load_tokenizer",
       "clamp_max_length", "process_train", "process_valid",
       "load_model_config", "load_model", "resize_token_embeddings",
       "prepare_int8", "get_peft_model", "resolve_block_size",
       "tokenize_train", "tokenize_valid", "group_train", "group_valid",
       "derive_logging_steps", "training_args", "callbacks", "trainer",
       "disable_cache", "train", "merge_adapter", "save_model",
       "create_repo", "upload_folder" >>

\* a variant of Order: tokenization and grouping placed before the model
OrderTokenizeBeforeModel ==
    << "normalize_config", "load_train", "load_valid", "load_tokenizer",
       "clamp_max_length", "process_train", "process_valid",
       "resolve_block_size", "tokenize_train", "tokenize_valid",
       "group_train", "group_valid",
       "load_model_config", "load_model", "resize_token_embeddings",
       "prepare_int8", "get_peft_model",
       "derive_logging_steps", "training_args", "callbacks", "trainer",
       "disable_cache", "train", "save_model", "merge_adapter",
       "create_repo", "upload_folder" >>

Order ==
    << "normalize_config", "load_train", "load_valid", "load_tokenizer",
       "clamp_max_length", "process_train", "process_valid",
       "load_model_config", "load_model", "resize_token_embeddings",
       "prepare_int8", "get_peft_model", "resolve_block_size",
       "tokenize_train", "tokenize_valid", "group_train", "group_valid",
       "derive_logging_steps", "training_args", "callbacks", "trainer",
       "disable_cache", "train", "save_model", "merge_adapter",
       "create_repo", "upload_folder" >>

Stages == { Order[i] : i \in 1..Len(Order) }

HasValid(cfg) == cfg.valid_split # None

\* a variant of StageRuns: the merge not guarded by use_peft
StageRunsMergeAlways(s, cfg) ==
    CASE s \in {"load_valid", "process_valid", "tokenize_valid", "group_valid"}
              -> cfg.valid_split # None
      [] s = "prepare_int8" -> cfg.use_peft /\ cfg.use_int8
      [] s = "get_peft_model" -> cfg.use_peft
      [] s \in {"create_repo", "upload_folder"} -> cfg.push_to_hub
      [] OTHER -> TRUE

StageRuns(s, cfg) ==
    CASE s \in {"load_valid", "process_valid", "tokenize_valid", "group_valid"}
              -> HasValid(cfg)
      [] s = "prepare_int8" -> cfg.use_peft /\ cfg.use_int8
      [] s \in {"get_peft_model", "merge_adapter"} -> cfg.use_peft
      [] s \in {"create_repo", "upload_folder"} -> cfg.push_to_hub
      [] OTHER -> TRUE

Pos(s) == CHOOSE i \in 1..Len(Order) : Order[i] = s

\* the first stage from position i on that the code runs, "done" if none
RECURSIVE From(_, _)
From(i, cfg) ==
    IF i > Len(Order) THEN "done"
    ELSE IF StageRuns(Order[i], cfg) THEN Order[i]
    ELSE From(i + 1, cfg)

After(s, cfg) == From(Pos(s) + 1, cfg)

\* the stages that call an external collaborator and so may raise
Fallible ==
    Stages \ {"clamp_max_length", "resolve_block_size", "derive_logging_steps",
              "callbacks", "disable_cache"}

(***************************************************************************)
(* The computations of train().                                            *)
(***************************************************************************)
\* a variant of ClampedMaxLength: the override taken as a cap
ClampedMaxLengthAsCap(intrinsic, configured) ==
    IF intrinsic > TokenizerLimit THEN Min(intrinsic, configured) ELSE intrinsic

\* lines 44-45
ClampedMaxLength(intrinsic, configured) ==
    IF intrinsic > TokenizerLimit THEN configured ELSE intrinsic

\* lines 99-100
NormalizeBlockSize(b) ==
    IF b = Some(UnsetSentinel) THEN None ELSE b

\* a variant of ResolveBlockSize: a set block size not capped
ResolveBlockSizeUncapped(b, m) ==
    IF b = None
    THEN IF m > DefaultBlockSize THEN DefaultBlockSize ELSE m
    ELSE b[1]

\* lines 102-117, on the block size normalized by lines 99-100
ResolveBlockSize(b, m) ==
    IF b = None
    THEN IF m > DefaultBlockSize THEN DefaultBlockSize ELSE m
    ELSE Min(b[1], m)

\* int(n / d) on the rational n / d: Python's int() truncates toward zero
Sign(x) == IF x < 0 THEN -1 ELSE 1
Abs(x) == IF x < 0 THEN -x ELSE x
IntTrunc(n, d) == Sign(n) * Sign(d) * (Abs(n) \div Abs(d))

\* a variant of DeriveLoggingSteps: without the floor of lines 165-166
DeriveLoggingStepsNoFloor(cfg, validLen, trainLen) ==
    IF cfg.logging_steps = UnsetSentinel
    THEN IF cfg.valid_split # None
         THEN IntTrunc(2 * validLen, 10 * cfg.train_batch_size)
         ELSE IntTrunc(2 * trainLen, 10 * cfg.train_batch_size)
    ELSE cfg.logging_steps

\* lines 160-169; 0.2 * len / batch is the rational (2 * len) / (10 * batch)
DeriveLoggingSteps(cfg, validLen, trainLen) ==
    IF cfg.logging_steps = UnsetSentinel
    THEN LET steps == IF HasValid(cfg)
                      THEN IntTrunc(2 * validLen, 10 * cfg.train_batch_size)
                      ELSE IntTrunc(2 * trainLen, 10 * cfg.train_batch_size)
         IN  IF steps = 0 THEN 1 ELSE steps
    ELSE cfg.logging_steps

\* a variant of TrainingArgs: the configured strategy whatever the split
TrainingArgsIgnoringSplit(cfg, steps) ==
    [built                       |-> TRUE,
     per_device_train_batch_size |-> cfg.train_batch_size,
     evaluation_strategy         |-> cfg.evaluation_strategy,
     logging_steps               |-> steps,
     push_to_hub                 |-> FALSE,
     load_best_model_at_end      |-> IF cfg.valid_split # None
                                     THEN TRUE ELSE FALSE]

\* lines 171-192, the entries that depend on a branch
TrainingArgs(cfg, steps) ==
    [built                       |-> TRUE,
     per_device_train_batch_size |-> cfg.train_batch_size,
     evaluation_strategy         |-> IF HasValid(cfg)
                                     THEN cfg.evaluation_strategy ELSE "no",
     logging_steps               |-> steps,
     push_to_hub                 |-> FALSE,
     load_best_model_at_end      |-> IF HasValid(cfg) THEN TRUE ELSE FALSE]

\* lines 196-200
Callbacks(cfg) ==
    IF cfg.use_peft
    THEN IF HasValid(cfg)
         THEN << "SavePeftModelCallback", "LoadBestPeftModelCallback" >>
         ELSE << "SavePeftModelCallback" >>
    ELSE << >>

\* lines 207-214
Trainer(cfg, args, cbs) ==
    [built        |-> TRUE,
     args         |-> args,
     eval_dataset |-> IF HasValid(cfg) THEN Some("valid_data") ELSE None,
     callbacks    |-> cbs]

(***************************************************************************)
(* The state at the call of train().                                       *)
(***************************************************************************)
NoTokenizer == [loaded |-> FALSE, model_max_length |-> None, writes |-> 0]
NoData == [train |-> "unloaded", valid |-> "unloaded"]
NoModel ==
    [loaded |-> FALSE, load_in_8bit |-> FALSE, half_precision |-> FALSE,
     resized |-> FALSE, int8_prepared |-> FALSE, peft |-> FALSE,
     use_cache |-> TRUE, trained |-> FALSE]
NoTrainingArgs ==
    [built |-> FALSE, per_device_train_batch_size |-> 0,
     evaluation_strategy |-> "unset", logging_steps |-> 0,
     push_to_hub |-> FALSE, load_best_model_at_end |-> FALSE]
NoTrainer ==
    [built |-> FALSE, args |-> NoTrainingArgs, eval_dataset |-> None,
     callbacks |-> << >>]
NoError == [stage |-> "none", kind |-> "none"]

Entry ==
    /\ pc = From(1, input)
    /\ config = input
    /\ tokenizer = NoTokenizer
    /\ data = NoData
    /\ model = NoModel
    /\ block_size = None
    /\ logging_steps = None
    /\ training_args = NoTrainingArgs
    /\ callbacks = << >>
    /\ trainer = NoTrainer
    /\ events = << >>
    /\ error = NoError

Init ==
    /\ \E job \in Jobs : input = job.input /\ env = job.env
    /\ Entry
    /\ outDir = {}
    /\ hub = [repos |-> {}, uploads |-> {}]

\* stage s completes and control passes to the next stage the code runs
Completes(s) ==
    /\ pc = s
    /\ pc' = After(s, config)
    /\ events' = Append(events, s)
    /\ error' = error

(***************************************************************************)
(* Setup: configuration, datasets, tokenizer (lines 23-57).                *)
(***************************************************************************)
\* lines 23-24
NormalizeConfig ==
    /\ Completes("normalize_config")
    /\ UNCHANGED <<input, env, config, tokenizer, data, model, block_size,
                   logging_steps, training_args, callbacks, trainer, outDir,
                   hub>>

\* lines 26-30
LoadTrain ==
    /\ Completes("load_train")
    /\ data' = [data EXCEPT !.train = "raw"]
    /\ UNCHANGED <<input, env, config, tokenizer, model, block_size,
                   logging_steps, training_args, callbacks, trainer, outDir,
                   hub>>

\* lines 31-36
LoadValid ==
    /\ Completes("load_valid")
    /\ data' = [data EXCEPT !.valid = "raw"]
    /\ UNCHANGED <<input, env, config, tokenizer, model, block_size,
                   logging_steps, training_args, callbacks, trainer, outDir,
                   hub>>

\* lines 38-42
LoadTokenizer ==
    /\ Completes("load_tokenizer")
    /\ tokenizer' = [loaded |-> TRUE,
                     model_max_length |-> Some(env.intrinsic_max_length),
                     writes |-> 0]
    /\ UNCHANGED <<input, env, config, data, model, block_size,
                   logging_steps, training_args, callbacks, trainer, outDir,
                   hub>>

\* lines 44-45
ClampMaxLength ==
    /\ Completes("clamp_max_length")
    /\ LET m == tokenizer.model_max_length[1]
           c == ClampedMaxLength(m, config.model_max_length)
       IN  tokenizer' =
             [tokenizer EXCEPT
                !.model_max_length = Some(c),
                !.writes = IF m > TokenizerLimit THEN @ + 1 ELSE @]
    /\ UNCHANGED <<input, env, config, data, model, block_size,
                   logging_steps, training_args, callbacks, trainer, outDir,
                   hub>>

\* lines 47-51
ProcessTrain ==
    /\ Completes("process_train")
    /\ data' = [data EXCEPT !.train = "processed"]
    /\ UNCHANGED <<input, env, config, tokenizer, model, block_size,
                   logging_steps, training_args, callbacks, trainer, outDir,
                   hub>>

\* lines 52-57
ProcessValid ==
    /\ Completes("process_valid")
    /\ data' = [data EXCEPT !.valid = "processed"]
    /\ UNCHANGED <<input, env, config, tokenizer, model, block_size,
                   logging_steps, training_args, callbacks, trainer, outDir,
                   hub>>

(***************************************************************************)
(* Model building (lines 59-97).                                           *)
(***************************************************************************)
\* lines 59-64
LoadModelConfig ==
    /\ Completes("load_model_config")
    /\ UNCHANGED <<input, env, config, tokenizer, data, model, block_size,
                   logging_steps, training_args, callbacks, trainer, outDir,
                   hub>>

\* lines 66-82
LoadModel ==
    /\ Completes("load_model")
    /\ model' = [model EXCEPT
                   !.loaded = TRUE,
                   !.half_precision = config.use_peft,
                   !.load_in_8bit = config.use_peft /\ config.use_int8]
    /\ UNCHANGED <<input, env, config, tokenizer, data, block_size,
                   logging_steps, training_args, callbacks, trainer, outDir,
                   hub>>

\* line 84
ResizeTokenEmbeddings ==
    /\ Completes("resize_token_embeddings")
    /\ model' = [model EXCEPT !.resized = TRUE]
    /\ UNCHANGED <<input, env, config, tokenizer, data, block_size,
                   logging_steps, training_args, callbacks, trainer, outDir,
                   hub>>

\* lines 87-88
PrepareInt8 ==
    /\ Completes("prepare_int8")
    /\ model' = [model EXCEPT !.int8_prepared = TRUE]
    /\ UNCHANGED <<input, env, config, tokenizer, data, block_size,
                   logging_steps, training_args, callbacks, trainer, outDir,
                   hub>>

\* lines 89-97
GetPeftModel ==
    /\ Completes("get_peft_model")
    /\ model' = [model EXCEPT !.peft = TRUE]
    /\ UNCHANGED <<input, env, config, tokenizer, data, block_size,
                   logging_steps, training_args, callbacks, trainer, outDir,
                   hub>>

(***************************************************************************)
(* Block size, tokenization and grouping (lines 99-156).                   *)
(***************************************************************************)
\* lines 99-119
ResolveBlock ==
    /\ Completes("resolve_block_size")
    /\ LET b == ResolveBlockSize(NormalizeBlockSize(config.block_size),
                                 tokenizer.model_max_length[1])
       IN  /\ block_size' = Some(b)
           /\ config' = [config EXCEPT !.block_size = Some(b)]
    /\ UNCHANGED <<input, env, tokenizer, data, model, logging_steps,
                   training_args, callbacks, trainer, outDir, hub>>

\* lines 126-132
TokenizeTrain ==
    /\ Completes("tokenize_train")
    /\ data' = [data EXCEPT !.train = "tokenized"]
    /\ UNCHANGED <<input, env, config, tokenizer, model, block_size,
                   logging_steps, training_args, callbacks, trainer, outDir,
                   hub>>

\* lines 134-141
TokenizeValid ==
    /\ Completes("tokenize_valid")
    /\ data' = [data EXCEPT !.valid = "tokenized"]
    /\ UNCHANGED <<input, env, config, tokenizer, model, block_size,
                   logging_steps, training_args, callbacks, trainer, outDir,
                   hub>>

\* lines 143-148
GroupTrain ==
    /\ Completes("group_train")
    /\ data' = [data EXCEPT !.train = "grouped"]
    /\ UNCHANGED <<input, env, config, tokenizer, model, block_size,
                   logging_steps, training_args, callbacks, trainer, outDir,
                   hub>>

\* lines 150-156
GroupValid ==
    /\ Completes("group_valid")
    /\ data' = [data EXCEPT !.valid = "grouped"]
    /\ UNCHANGED <<input, env, config, tokenizer, model, block_size,
                   logging_steps, training_args, callbacks, trainer, outDir,
                   hub>>

(***************************************************************************)
(* Training driver (lines 158-220).                                        *)
(***************************************************************************)
\* lines 160-169; len(valid_data) and len(train_data) are the grouped lengths
LoggingStepsStage ==
    /\ Completes("derive_logging_steps")
    /\ logging_steps' =
         Some(DeriveLoggingSteps(config, env.valid_blocks, env.train_blocks))
    /\ UNCHANGED <<input, env, config, tokenizer, data, model, block_size,
                   training_args, callbacks, trainer, outDir, hub>>

\* lines 171-194
BuildTrainingArgs ==
    /\ Completes("training_args")
    /\ training_args' = TrainingArgs(config, logging_steps[1])
    /\ UNCHANGED <<input, env, config, tokenizer, data, model, block_size,
                   logging_steps, callbacks, trainer, outDir, hub>>

\* lines 196-200
RegisterCallbacks ==
    /\ Completes("callbacks")
    /\ callbacks' = Callbacks(config)
    /\ UNCHANGED <<input, env, config, tokenizer, data, model, block_size,
                   logging_steps, training_args, trainer, outDir, hub>>

\* lines 202-214
BuildTrainer ==
    /\ Completes("trainer")
    /\ trainer' = Trainer(config, training_args, callbacks)
    /\ UNCHANGED <<input, env, config, tokenizer, data, model, block_size,
                   logging_steps, training_args, callbacks, outDir, hub>>

\* lines 215-218; the compiled wrapper of lines 217-218 is bound to a local
\* that nothing reads afterwards
DisableCache ==
    /\ Completes("disable_cache")
    /\ model' = [model EXCEPT !.use_cache = FALSE]
    /\ UNCHANGED <<input, env, config, tokenizer, data, block_size,
                   logging_steps, training_args, callbacks, trainer, outDir,
                   hub>>

\* line 220; the loop writes its checkpoints under output_dir (line 172)
Train ==
    /\ Completes("train")
    /\ model' = [model EXCEPT !.trained = TRUE]
    /\ outDir' = outDir \cup {"checkpoints"}
    /\ UNCHANGED <<input, env, config, tokenizer, data, block_size,
                   logging_steps, training_args, callbacks, trainer, hub>>

(***************************************************************************)
(* Post-processing (lines 222-237).                                        *)
(***************************************************************************)
\* lines 222-223
SaveModel ==
    /\ Completes("save_model")
    /\ outDir' = outDir \cup {"saved_model"}
    /\ UNCHANGED <<input, env, config, tokenizer, data, model, block_size,
                   logging_steps, training_args, callbacks, trainer, hub>>

\* lines 225-231
MergeAdapter ==
    /\ Completes("merge_adapter")
    /\ outDir' = outDir \cup {"merged_model"}
    /\ UNCHANGED <<input, env, config, tokenizer, data, model, block_size,
                   logging_steps, training_args, callbacks, trainer, hub>>

\* line 236: create_repo is called without exist_ok, whose default makes the
\* call raise when the repository exists
CreateRepo ==
    /\ pc = "create_repo"
    /\ IF config.repo_id \in hub.repos
       THEN /\ pc' = "aborted"
            /\ error' = [stage |-> "create_repo", kind |-> "repo_exists"]
            /\ UNCHANGED <<events, hub>>
       ELSE /\ pc' = After("create_repo", config)
            /\ events' = Append(events, "create_repo")
            /\ error' = error
            /\ hub' = [hub EXCEPT !.repos = @ \cup {config.repo_id}]
    /\ UNCHANGED <<input, env, config, tokenizer, data, model, block_size,
                   logging_steps, training_args, callbacks, trainer, outDir>>

\* line 237
UploadFolder ==
    /\ Completes("upload_folder")
    /\ hub' = [hub EXCEPT !.uploads = @ \cup {config.repo_id}]
    /\ UNCHANGED <<input, env, config, tokenizer, data, model, block_size,
                   logging_steps, training_args, callbacks, trainer, outDir>>

(***************************************************************************)
(* An exception in a stage: train() has no try/except, so the exception    *)
(* leaves train() at once with everything as the stage found it.           *)
(***************************************************************************)
\* a variant of Raise: the exception caught and the run continued
RaiseSwallowed ==
    /\ pc \in Fallible
    /\ pc' = After(pc, config)
    /\ error' = [stage |-> pc, kind |-> "exception"]
    /\ UNCHANGED <<input, env, config, tokenizer, data, model, block_size,
                   logging_steps, training_args, callbacks, trainer, outDir,
                   hub, events>>

Raise ==
    /\ pc \in Fallible
    /\ pc' = "aborted"
    /\ error' = [stage |-> pc, kind |-> "exception"]
    /\ UNCHANGED <<input, env, config, tokenizer, data, model, block_size,
                   logging_steps, training_args, callbacks, trainer, outDir,
                   hub, events>>

\* train() is called again for the same job: lines 240-250, run once more
Restart ==
    /\ pc \in {"done", "aborted"}
    /\ pc' = From(1, input)
    /\ config' = input
    /\ tokenizer' = NoTokenizer
    /\ data' = NoData
    /\ model' = NoModel
    /\ block_size' = None
    /\ logging_steps' = None
    /\ training_args' = NoTrainingArgs
    /\ callbacks' = << >>
    /\ trainer' = NoTrainer
    /\ events' = << >>
    /\ error' = NoError
    /\ UNCHANGED <<input, env, outDir, hub>>

Next ==
    \/ NormalizeConfig \/ LoadTrain \/ LoadValid \/ LoadTokenizer
    \/ ClampMaxLength \/ ProcessTrain \/ ProcessValid
    \/ LoadModelConfig \/ LoadModel \/ ResizeTokenEmbeddings
    \/ PrepareInt8 \/ GetPeftModel
    \/ ResolveBlock \/ TokenizeTrain \/ TokenizeValid
    \/ GroupTrain \/ GroupValid
    \/ LoggingStepsStage \/ BuildTrainingArgs \/ RegisterCallbacks
    \/ BuildTrainer \/ DisableCache \/ Train
    \/ SaveModel \/ MergeAdapter \/ CreateRepo \/ UploadFolder
    \/ Raise \/ Restart

Spec == Init /\ [][Next]_vars

(***************************************************************************)
(* Properties.                                                             *)
(***************************************************************************)
Ran(s) == \E i \in DOMAIN events : events[i] = s
At(s) == CHOOSE i \in DOMAIN events : events[i] = s
Times(s) == Cardinality({ i \in DOMAIN events : events[i] = s })
Precedes(s, t) == Ran(s) /\ (Ran(t) => At(s) < At(t))
Intrinsic == env.intrinsic_max_length
MaxLength == tokenizer.model_max_length[1]
BlockSizeUnset == input.block_size = None \/ input.block_size = Some(-1)

\* C1: once train() has resolved the block size, config.block_size is
\* min(b, m) for a configured positive b and min(1024, m) for an unset one
\* (None or -1), m being the tokenizer's max length after the override.
C1_BlockSizeResolution ==
    Ran("resolve_block_size") =>
        /\ (~BlockSizeUnset /\ input.block_size[1] > 0)
              => config.block_size = Some(Min(input.block_size[1], MaxLength))
        /\ BlockSizeUnset
              => config.block_size = Some(Min(1024, MaxLength))

C1_Witness ==
    /\ Ran("resolve_block_size")
    /\ input.block_size = Some(1500)
    /\ MaxLength = 512
    /\ config.block_size = Some(512)

\* C2: for every configured block size, 0 and negative values other than -1
\* included, the resolved config.block_size is positive, is at most the
\* tokenizer's max length, and keeps its value through the rest of the run.
C2_ResolvedBlockSizePositive ==
    Ran("resolve_block_size") =>
        /\ config.block_size[1] > 0
        /\ config.block_size[1] <= MaxLength
        /\ config.block_size = block_size

\* C3: with logging_steps = -1 the resolved logging_steps is
\* max(1, floor(0.2 * L / B)), L the grouped validation length if a
\* validation split is configured and the grouped training length
\* otherwise; a configured logging_steps reaches the training arguments
\* unchanged.
C3_LoggingSteps ==
    LET L == IF input.valid_split # None
             THEN env.valid_blocks ELSE env.train_blocks
        B == input.train_batch_size
    IN  /\ Ran("derive_logging_steps") =>
              IF input.logging_steps = -1
              THEN /\ logging_steps = Some(Max(1, L \div (5 * B)))
                   /\ logging_steps # Some(0)
              ELSE logging_steps = Some(input.logging_steps)
        /\ training_args.built =>
              training_args.logging_steps = logging_steps[1]

C3_Witness ==
    /\ training_args.built
    /\ input.logging_steps = -1
    /\ input.valid_split # None
    /\ env.valid_blocks < 5 * input.train_batch_size
    /\ env.train_blocks >= 5 * input.train_batch_size
    /\ training_args.logging_steps = 1

\* C4: without a validation split the evaluation strategy is "no",
\* load_best_model_at_end is false, the trainer has no evaluation dataset
\* and the callbacks exclude the best-model reload; with a validation split
\* the configured evaluation strategy is used and load_best_model_at_end
\* is true.
C4_ValidationSplitGatesEvaluation ==
    /\ (training_args.built /\ input.valid_split = None) =>
          /\ training_args.evaluation_strategy = "no"
          /\ training_args.load_best_model_at_end = FALSE
    /\ (training_args.built /\ input.valid_split # None) =>
          /\ training_args.evaluation_strategy = input.evaluation_strategy
          /\ training_args.load_best_model_at_end = TRUE
    /\ (trainer.built /\ input.valid_split = None) =>
          /\ trainer.args.evaluation_strategy = "no"
          /\ trainer.args.load_best_model_at_end = FALSE
          /\ trainer.eval_dataset = None
          /\ \A i \in DOMAIN trainer.callbacks :
                trainer.callbacks[i] # "LoadBestPeftModelCallback"

C4_Witness ==
    /\ trainer.built
    /\ input.valid_split = None
    /\ input.use_peft
    /\ input.evaluation_strategy = "steps"
    /\ trainer.args.evaluation_strategy = "no"
    /\ trainer.callbacks = << "SavePeftModelCallback" >>

\* C5: with use_peft false no callback is registered, the model gets no
\* int8 preparation and no adapter, and the merge never runs; with use_peft
\* true the save-adapter callback is registered, the reload callback is
\* registered exactly when a validation split exists, and a completed run
\* has merged exactly once, after the save.
C5_AdapterModeGates ==
    /\ ~input.use_peft =>
          /\ callbacks = << >>
          /\ trainer.callbacks = << >>
          /\ ~model.load_in_8bit /\ ~model.int8_prepared /\ ~model.peft
          /\ ~Ran("prepare_int8") /\ ~Ran("get_peft_model")
          /\ ~Ran("merge_adapter")
          /\ "merged_model" \notin outDir
    /\ (input.use_peft /\ Ran("callbacks")) =>
          /\ \E i \in DOMAIN callbacks :
                callbacks[i] = "SavePeftModelCallback"
          /\ (\E i \in DOMAIN callbacks :
                callbacks[i] = "LoadBestPeftModelCallback")
                <=> input.valid_split # None
    /\ input.use_peft =>
          /\ Times("merge_adapter") <= 1
          /\ Ran("merge_adapter") => Precedes("save_model", "merge_adapter")
          /\ pc = "done" => Times("merge_adapter") = 1

C5_Witness ==
    /\ pc = "done"
    /\ input.use_peft
    /\ input.valid_split # None
    /\ Times("merge_adapter") = 1
    /\ Len(callbacks) = 2

\* C6: a stage that fails aborts the run at that stage: no later stage
\* runs, the failed stage is not run again, and what earlier stages wrote
\* (output directory, hub) stays as it is.
C6_FailureAborts ==
    /\ [](error # NoError =>
            /\ pc = "aborted"
            /\ ~Ran(error.stage)
            /\ \A i \in DOMAIN events : Pos(events[i]) < Pos(error.stage))
    /\ [][(pc # "aborted" /\ pc' = "aborted") =>
            /\ events' = events /\ outDir' = outDir /\ hub' = hub
            /\ model' = model /\ config' = config]_vars
    /\ [][pc = "aborted" =>
            /\ events' = << >> /\ error' = NoError
            /\ outDir' = outDir /\ hub' = hub]_vars

C6_Witness ==
    /\ pc = "aborted"
    /\ error.stage = "merge_adapter"
    /\ input.push_to_hub
    /\ Ran("train") /\ Ran("save_model")
    /\ outDir = {"checkpoints", "saved_model"}
    /\ hub.repos = {}

\* C7: with push_to_hub set, repository creation succeeds whether or not a
\* repository with config.repo_id already exists, so an existing repository
\* never stops the run before the upload.
C7_CreateRepoIdempotent ==
    ~(pc = "aborted" /\ error.stage = "create_repo"
        /\ error.kind = "repo_exists")

\* C8 as stated: the override of lines 44-45 is the only write to the
\* tokenizer's max length, and the max length block-size resolution reads
\* is never larger than the tokenizer's intrinsic max length.
C8_MaxLengthBoundedByIntrinsic ==
    /\ tokenizer.writes <= 1
    /\ Ran("clamp_max_length") =>
          MaxLength = (IF Intrinsic > 2048
                       THEN input.model_max_length ELSE Intrinsic)
    /\ Ran("resolve_block_size") => MaxLength <= Intrinsic

\* C8 amended: an intrinsic max length above 2048 is replaced by
\* config.model_max_length and any other is kept; that is the only write,
\* made at most once and before preprocessing and block-size resolution;
\* the max length block-size resolution reads is larger than the intrinsic
\* one exactly when the intrinsic one exceeds 2048 and
\* config.model_max_length exceeds it.
C8_MaxLengthPolicy ==
    /\ tokenizer.writes <= 1
    /\ Ran("clamp_max_length") =>
          /\ MaxLength = (IF Intrinsic > 2048
                          THEN input.model_max_length ELSE Intrinsic)
          /\ tokenizer.writes = (IF Intrinsic > 2048 THEN 1 ELSE 0)
          /\ Times("clamp_max_length") = 1
    /\ (Ran("process_train") \/ Ran("process_valid")
          \/ Ran("resolve_block_size")) => Ran("clamp_max_length")
    /\ Ran("resolve_block_size") =>
          /\ MaxLength <= Max(Intrinsic, input.model_max_length)
          /\ MaxLength > Intrinsic <=>
                (Intrinsic > 2048 /\ input.model_max_length > Intrinsic)

C8_Witness ==
    /\ Ran("resolve_block_size")
    /\ Intrinsic = 4096
    /\ input.model_max_length = 8192
    /\ MaxLength = 8192
    /\ tokenizer.writes = 1

\* the order of the model-affecting stages that C9 states
C9_Chain ==
    << "prepare_int8", "get_peft_model", "disable_cache", "train",
       "save_model", "merge_adapter", "create_repo", "upload_folder" >>

C9_Rank(s) == CHOOSE k \in DOMAIN C9_Chain : C9_Chain[k] = s

\* C9: the stages that act on the model and its artifact run in the order
\* int8 preparation (use_peft and use_int8 only), adapter injection
\* (use_peft only), cache disabled, training, save, merge (use_peft only),
\* repository creation and upload (push_to_hub only); nothing is written
\* to the hub without push_to_hub, and an upload follows training, save
\* and, in adapter mode, merge.
C9_ModelStageOrder ==
    /\ \A i, j \in DOMAIN events :
          (i < j /\ (\E k \in DOMAIN C9_Chain : C9_Chain[k] = events[i])
                 /\ (\E k \in DOMAIN C9_Chain : C9_Chain[k] = events[j]))
             => C9_Rank(events[i]) < C9_Rank(events[j])
    /\ Ran("prepare_int8") => input.use_peft /\ input.use_int8
    /\ Ran("get_peft_model") => input.use_peft
    /\ Ran("merge_adapter") => input.use_peft
    /\ (Ran("train") /\ input.use_peft) =>
          /\ Ran("get_peft_model")
          /\ input.use_int8 => Ran("prepare_int8")
    /\ Ran("train") => Ran("disable_cache") /\ ~model.use_cache
    /\ Ran("save_model") => Ran("train")
    /\ Ran("merge_adapter") => Ran("save_model")
    /\ ~input.push_to_hub =>
          /\ ~Ran("create_repo") /\ ~Ran("upload_folder")
          /\ hub.repos = {} /\ hub.uploads = {}
    /\ Ran("upload_folder") =>
          /\ Ran("create_repo") /\ Ran("train") /\ Ran("save_model")
          /\ input.use_peft => Ran("merge_adapter")
    /\ pc = "done" =>
          /\ Ran("save_model")
          /\ input.use_peft => Ran("merge_adapter")
          /\ input.push_to_hub => Ran("upload_folder")

C9_Witness ==
    /\ pc = "done"
    /\ input.use_peft /\ input.use_int8 /\ input.push_to_hub
    /\ Ran("prepare_int8") /\ Ran("merge_adapter") /\ Ran("upload_folder")
    /\ hub.uploads = {input.repo_id}

\* C10 as stated: every split is tokenized and grouped into blocks before
\* the model builder starts.
C10_GroupedBeforeModel ==
    (Ran("load_model_config") \/ Ran("load_model")) =>
        /\ data.train = "grouped"
        /\ input.valid_split # None => data.valid = "grouped"

\* the component each stage belongs to, in the order the code runs them
C10_Component(s) ==
    CASE s = "normalize_config" -> 1
      [] s \in {"load_train", "load_valid"} -> 2
      [] s \in {"load_tokenizer", "clamp_max_length"} -> 3
      [] s \in {"process_train", "process_valid"} -> 4
      [] s \in {"load_model_config", "load_model", "resize_token_embeddings",
                "prepare_int8", "get_peft_model"} -> 5
      [] s \in {"resolve_block_size", "tokenize_train", "tokenize_valid",
                "group_train", "group_valid"} -> 6
      [] s \in {"derive_logging_steps", "training_args", "callbacks",
                "trainer", "disable_cache", "train"} -> 7
      [] OTHER -> 8

\* C10 amended: the components run in the order config normalization,
\* dataset loading, tokenizer preparation, process_data, model building,
\* block-size resolution with tokenization and grouping, training,
\* post-processing, none running after a later one; every split has been
\* through process_data before the model builder starts, and is tokenized
\* and grouped after the model builder has finished and before the
\* training driver starts.
C10_LinearFlow ==
    /\ \A i, j \in DOMAIN events :
          i < j => C10_Component(events[i]) <= C10_Component(events[j])
    /\ (Ran("load_model_config") \/ Ran("load_model")) =>
          /\ data.train \in {"processed", "tokenized", "grouped"}
          /\ input.valid_split # None =>
                data.valid \in {"processed", "tokenized", "grouped"}
    /\ (Ran("tokenize_train") \/ Ran("tokenize_valid")) =>
          /\ Ran("load_model") /\ Ran("resize_token_embeddings")
          /\ input.use_peft => Ran("get_peft_model")
    /\ Ran("derive_logging_steps") =>
          /\ data.train = "grouped"
          /\ input.valid_split # None => data.valid = "grouped"

C10_Witness ==
    /\ Ran("get_peft_model")
    /\ pc = "resolve_block_size"
    /\ input.valid_split # None
    /\ data.train = "processed" /\ data.valid = "processed"

=============================================================================
